---- MODULE Spec2Model ----
(***************************************************************************)
(* A model of the chat component of needpedia-greeter                      *)
(* (src/app/components/weather-widget.tsx, the Chat component and the      *)
(* module-level helpers above it).                                         *)
(*                                                                         *)
(* The component runs on one event loop: every action below is one         *)
(* synchronous stretch of a handler, from a user event or the resolution   *)
(* of an awaited promise to the next await.  React state updaters queued   *)
(* in such a stretch are applied together, in call order.                  *)
(*                                                                         *)
(* Text is a sequence of tokens; a thread id is a natural number.          *)
(* Thread.lastUpdated (a wall-clock timestamp) is not modelled.            *)
(***************************************************************************)
EXTENDS Integers, Sequences, FiniteSets, Bags, TLC

(* ------------------------------ bounds --------------------------------- *)
\* threads of the thread list, counting createNewThread calls in flight
MaxThreads == 2
\* handleSubmit calls that pass the blank-input check
MaxSubmits == 2
\* display events the provider sends in one session
MaxEvents == 3
\* syncThreadWithBackend calls in flight at one time (a call made beyond it
\* is not tracked)
MaxSyncs == 2
\* largest quota the /tokens endpoint answers with
MaxQuota == 1
\* largest completion-token usage the provider reports
MaxUsage == 1
\* tool calls in one requires-action batch
MaxToolCalls == 2
\* handleSubmit calls in the world that appends while switching
MaxAppendSubmits == 1

(* ------------------------------ text ----------------------------------- *)
RECURSIVE Concat(_)
Concat(ss) == IF ss = <<>> THEN <<>> ELSE Head(ss) \o Concat(Tail(ss))

InSeq(x, s) == \E i \in 1..Len(s) : s[i] = x

Count(x, s) == Cardinality({i \in 1..Len(s) : s[i] = x})

StartsWith(s, p) == Len(p) <= Len(s) /\ SubSeq(s, 1, Len(p)) = p

\* String.prototype.includes
Includes(s, p) == \E i \in 0..(Len(s) - Len(p)) : SubSeq(s, i + 1, i + Len(p)) = p

\* String.prototype.replaceAll with a string pattern: left to right, matches
\* do not overlap, the replacement is not scanned again.
RECURSIVE ReplaceAll(_, _, _)
ReplaceAll(s, pat, rep) ==
    IF pat = <<>> \/ s = <<>> THEN s
    ELSE IF StartsWith(s, pat)
         THEN rep \o ReplaceAll(SubSeq(s, Len(pat) + 1, Len(s)), pat, rep)
         ELSE <<Head(s)>> \o ReplaceAll(Tail(s), pat, rep)

\* String.prototype.trim over blank tokens
RECURSIVE TrimLeft(_)
TrimLeft(s) == IF s # <<>> /\ Head(s) = " " THEN TrimLeft(Tail(s)) ELSE s

RECURSIVE TrimRight(_)
TrimRight(s) ==
    IF s # <<>> /\ s[Len(s)] = " " THEN TrimRight(SubSeq(s, 1, Len(s) - 1)) ELSE s

Trim(s) == TrimRight(TrimLeft(s))

\* `/api/files/${file_id}`
FileUrl(f) == <<"/api/files/", f>>

\* a slip: the image's alt text without its link
ImageAltOnly(f) == <<"\n![", f, "]\n">>

\* `\n![${file_id}](/api/files/${file_id})\n`
ImageMarkdown(f) == <<"\n![", f, "](">> \o FileUrl(f) \o <<")\n">>

(* ----------------------------- messages -------------------------------- *)
Msg(role, text) == [role |-> role, text |-> text, isHTML |-> FALSE]

\* createNewThread's initialMessage (NEXT_PUBLIC_INITIAL_MESSAGE_TEXT or the
\* built-in greeting)
InitialMessage == Msg("assistant", <<"welcome">>)

\* handleSubmit's messageText, appended with isHTML: true
UpsellMessage == [role |-> "assistant", text |-> <<"upsell">>, isHTML |-> TRUE]

(* ------------------------- what the world sends ------------------------- *)
\* what the user types into the textarea
Inputs == {<<"u">>, <<" ">>}

\* text-delta values
Deltas == {<<"a">>, <<"b">>}

FileIds == {"F"}

\* annotations of a text-delta: none, a file_path annotation of the text "a",
\* a file_citation annotation of the text "a"
Annotation(type, text, f) == [type |-> type, text |-> text, file_id |-> f]

AnnotationLists ==
    { <<>>,
      <<Annotation("file_path", <<"a">>, "F")>>,
      <<Annotation("file_citation", <<"a">>, "F")>> }

ToolKinds == {"code_interpreter", "function"}

(* ------------------------------ state ---------------------------------- *)
VARIABLES
    messages,          \* useState messages: the displayed message list
    threads,           \* useState threads
    currentThreadId,   \* useState currentThreadId; 0 is the empty string
    inputDisabled,     \* useState inputDisabled
    userInput,         \* useState userInput
    tokens,            \* useState tokens (display copy of the quota)
    isLoading,         \* useState isLoading
    creating,          \* createNewThread calls awaiting POST /api/assistants/threads
    issued,            \* thread ids the Assistant Provider has issued so far
    submits,           \* handleSubmit calls, in call order
    runs,              \* sendMessage calls that posted a message, in call order
    completionTokens,  \* window.completionTokens; 0 is undefined
    decrements,        \* requests posted to /tokens/decrease, in order
    cache,             \* localStorage cached_thread_ids
    backend,           \* Backend Thread Registry: the rows it holds
    syncs,             \* syncThreadWithBackend calls in flight (a bag)
    failed,            \* history: ids for which a syncThreadWithBackend call threw
    lsThreads,         \* localStorage chat_threads_<token>
    lsCurrent,         \* localStorage current_thread_id_<token>
    lsMessages,        \* localStorage current_thread_messages_<token>
    last               \* the handler that ran last, with what the claims need of it

vars == <<messages, threads, currentThreadId, inputDisabled, userInput, tokens,
          isLoading, creating, issued, submits, runs, completionTokens,
          decrements, cache, backend, syncs, failed, lsThreads, lsCurrent, lsMessages,
          last>>

chatVars == <<messages, threads, currentThreadId, inputDisabled, userInput,
              tokens, isLoading>>

meterVars == <<completionTokens, decrements>>

syncVars == <<cache, backend, syncs, failed>>

(* ------------------------- Thread Synchronizer ------------------------- *)
\* getThreadsFromLocalStorage
getThreadsFromLocalStorage == cache

\* A call in flight: the thread id, where it waits, and the cachedThreads it
\* read when it started.
\* a call in flight: its thread id, the await it is at, the cachedThreads it
\* read when it started, and whether an earlier call for the id had thrown
SyncProc(id, pc, cached, retry) == [id |-> id, pc |-> pc, cached |-> cached, retry |-> retry]

\* syncThreadWithBackend up to its first await: a cache hit returns at once,
\* a miss leaves the call waiting for GET /chat_threads.
StartedSyncs(id, bag) ==
    IF InSeq(id, getThreadsFromLocalStorage) \/ BagCardinality(bag) >= MaxSyncs
    THEN bag
    ELSE bag (+) SetToBag({SyncProc(id, "get", getThreadsFromLocalStorage, id \in failed)})

\* fetchThreadsFromBackend: the list the caller gets, and what the cache
\* holds afterwards.  A failed request answers {threads: []} and saves nothing.
FetchedThreads(ok) == IF ok THEN backend ELSE <<>>

CacheAfterFetch(ok) == IF ok THEN backend ELSE cache

\* the write after a successful registration: [...cachedThreads, thread.id]
CacheAfterRegistration(p) == Append(p.cached, p.id)

\* a slip: the cache is written before the POST's answer is looked at
CacheAfterPostAlways(p, ok) == CacheAfterRegistration(p)

\* the cache after the registration POST was answered: an answer that is
\* not ok throws before the write
CacheAfterPost(p, ok) == IF ok THEN CacheAfterRegistration(p) ELSE cache

\* a slip: the list read before the request is looked at again
ThreadExistsInCache(p, ok) == InSeq(p.id, p.cached)

\* threadExists after the cache miss: backendResponse.threads.includes(thread.id)
ThreadExists(p, ok) == InSeq(p.id, FetchedThreads(ok))

\* GET /chat_threads answered for the call p; last keeps whether the
\* registry listed the thread in its answer
SyncGetResolve(p, ok) ==
    /\ p.pc = "get"
    /\ cache' = CacheAfterFetch(ok)
    /\ syncs' = IF ThreadExists(p, ok)
                THEN syncs (-) SetToBag({p})
                ELSE (syncs (-) SetToBag({p}))
                     (+) SetToBag({SyncProc(p.id, "fingerprint", p.cached, p.retry)})
    /\ last' = [op |-> "sync.get", id |-> p.id, ok |-> ok,
                listed |-> ok /\ InSeq(p.id, backend)]
    /\ UNCHANGED <<backend, failed, chatVars, meterVars, creating, issued, submits, runs,
                   lsThreads, lsCurrent, lsMessages>>

\* FingerprintJS.load() and get() settled for the call p; on success the
\* registration POST is sent
SyncFingerprintResolve(p, ok) ==
    /\ p.pc = "fingerprint"
    /\ syncs' = IF ok
                THEN (syncs (-) SetToBag({p})) (+) SetToBag({SyncProc(p.id, "post", p.cached, p.retry)})
                ELSE syncs (-) SetToBag({p})
    /\ failed' = IF ok THEN failed ELSE failed \cup {p.id}
    /\ last' = [op |-> "sync.fingerprint", id |-> p.id, ok |-> ok]
    /\ UNCHANGED <<cache, backend, chatVars, meterVars, creating, issued, submits,
                   runs, lsThreads, lsCurrent, lsMessages>>

\* POST /chat_threads answered for the call p; an ok answer means the
\* registry stored the row
SyncPostResolve(p, ok) ==
    /\ p.pc = "post"
    /\ syncs' = syncs (-) SetToBag({p})
    /\ backend' = IF ok THEN Append(backend, p.id) ELSE backend
    /\ cache' = CacheAfterPost(p, ok)
    /\ failed' = IF ok THEN failed ELSE failed \cup {p.id}
    /\ last' = [op |-> "sync.post", id |-> p.id, ok |-> ok]
    /\ UNCHANGED <<chatVars, meterVars, creating, issued, submits, runs,
                   lsThreads, lsCurrent, lsMessages>>

(* ------------------------------ threads -------------------------------- *)
\* the ids the Assistant Provider issues, in order, to this session
IdOf(n) == <<"t1", "t2", "t3", "t4">>[n]

\* a thread registered by an earlier session
OldId == "t0"

AllIds == {OldId} \cup {IdOf(n) : n \in 1..(MaxThreads + 1)}

Thread(id, title, msgs) ==
    [id |-> id, title |-> title, lastMessage |-> msgs[Len(msgs)].text,
     messages |-> msgs]

ThreadIndex(id, ths) ==
    IF \E i \in 1..Len(ths) : ths[i].id = id
    THEN CHOOSE i \in 1..Len(ths) :
             ths[i].id = id /\ \A j \in 1..(i - 1) : ths[j].id # id
    ELSE 0

\* updateThread's updater: the new thread list
UpdatedThreads(threadId, msgs, lastMessage, ths) ==
    [i \in 1..Len(ths) |->
        IF ths[i].id = threadId
        THEN [ths[i] EXCEPT !.messages = msgs, !.lastMessage = lastMessage]
        ELSE ths[i]]

\* updateThread's call of syncThreadWithBackend, made when the thread is found
SyncsAfterUpdate(threadId, ths) ==
    IF ThreadIndex(threadId, ths) # 0 THEN StartedSyncs(threadId, syncs) ELSE syncs

\* the effects that persist state after a render
Persist ==
    /\ lsThreads' = IF threads' # <<>> THEN threads' ELSE lsThreads
    /\ lsCurrent' = IF currentThreadId' # "" THEN currentThreadId' ELSE lsCurrent
    /\ lsMessages' = IF currentThreadId' # "" THEN messages' ELSE lsMessages

(* ------------------------ fetchThreadMessages --------------------------- *)
\* what GET /api/assistants/threads/<id>/messages lists for the old thread:
\* newest first, the answer carrying a citation mark
ProviderMessages ==
    << [role |-> "assistant", content |-> <<"r", "[[", "c", "]]">>, created_at |-> 2],
       [role |-> "user", content |-> <<"q">>, created_at |-> 1] >>

RECURSIVE InsertByCreatedAt(_, _)
InsertByCreatedAt(m, s) ==
    IF s = <<>> THEN <<m>>
    ELSE IF m.created_at < Head(s).created_at THEN <<m>> \o s
         ELSE <<Head(s)>> \o InsertByCreatedAt(m, Tail(s))

RECURSIVE SortByCreatedAt(_)
SortByCreatedAt(s) ==
    IF s = <<>> THEN <<>>
    ELSE InsertByCreatedAt(s[Len(s)], SortByCreatedAt(SubSeq(s, 1, Len(s) - 1)))

\* content.replace of every citation mark, "[[" to the nearest "]]", by ''
RECURSIVE StripCitations(_)
StripCitations(s) ==
    IF s = <<>> THEN <<>>
    ELSE IF Head(s) = "[[" /\ InSeq("]]", Tail(s))
         THEN LET close == CHOOSE i \in 2..Len(s) :
                               s[i] = "]]" /\ \A j \in 2..(i - 1) : s[j] # "]]"
              IN  StripCitations(SubSeq(s, close + 1, Len(s)))
         ELSE <<Head(s)>> \o StripCitations(Tail(s))

\* the token "fence" stands for a code fence (three backticks)
InferredRole(m) ==
    IF m.role = "user" THEN "user"
    ELSE IF m.role = "assistant"
              /\ (Includes(m.content, <<"fence">>)
                  \/ StartsWith(m.content, <<"function">>)
                  \/ StartsWith(m.content, <<"class">>))
         THEN "code"
         ELSE "assistant"

\* fetchThreadMessages: <<>> stands for null
FormattedMessages(ok) ==
    IF ~ok THEN <<>>
    ELSE LET sorted == SortByCreatedAt(ProviderMessages)
         IN  [i \in 1..Len(sorted) |->
                 Msg(InferredRole(sorted[i]), StripCitations(sorted[i].content))]

FirstUserText(msgs) ==
    IF \E i \in 1..Len(msgs) : msgs[i].role = "user"
    THEN msgs[CHOOSE i \in 1..Len(msgs) :
                  msgs[i].role = "user" /\ \A j \in 1..(i - 1) : msgs[j].role # "user"].text
    ELSE <<"Untitled">>

(* ------------------------- load and creation --------------------------- *)
\* a second thread registered by an earlier session
OlderId == "t00"

ListedIds == {OldId, OlderId}

\* validThreads without its nulls: the listed ids, in the order listed, whose
\* history was fetched and is not empty; loadable holds the ids whose
\* history can be fetched
ThreadsData(ids, loadable) ==
    SelectSeq([i \in 1..Len(ids) |->
                  [id |-> ids[i], messages |-> FormattedMessages(ids[i] \in loadable)]],
              LAMBDA t : t.messages # <<>>)

ProcessedThreads(threadsData) ==
    [i \in 1..Len(threadsData) |->
        Thread(threadsData[i].id, FirstUserText(threadsData[i].messages),
               threadsData[i].messages)]

\* a slip: the thread listed last is shown
LastProcessed(processedThreads) == processedThreads[Len(processedThreads)]

\* the thread loadSavedData selects: processedThreads[0]
SelectedOnLoad(processedThreads) == processedThreads[1]

\* loadSavedData up to its createNewThread call or its end
LoadSavedData(getOk, loadable) ==
    /\ isLoading /\ creating = 0
    /\ cache' = CacheAfterFetch(getOk)
    /\ LET ids == FetchedThreads(getOk)
           processedThreads == ProcessedThreads(ThreadsData(ids, loadable))
       IN  /\ threads' = IF ids # <<>> THEN processedThreads ELSE threads
           /\ IF processedThreads # <<>>
              THEN /\ currentThreadId' = SelectedOnLoad(processedThreads).id
                   /\ messages' = SelectedOnLoad(processedThreads).messages
                   /\ isLoading' = FALSE
                   /\ creating' = creating
              ELSE /\ creating' = creating + 1
                   /\ UNCHANGED <<currentThreadId, messages, isLoading>>
           /\ last' = [op |-> "loadSavedData", getOk |-> getOk,
                       loadable |-> loadable, listed |-> ids]
    /\ UNCHANGED <<inputDisabled, userInput, tokens, issued, submits, runs,
                   meterVars, backend, syncs, failed>>
    /\ Persist

\* the New Chat button: createNewThread up to its await
CreateNewThread ==
    /\ ~isLoading
    /\ Len(threads) + creating < MaxThreads
    /\ creating' = creating + 1
    /\ last' = [op |-> "createNewThread"]
    /\ UNCHANGED <<chatVars, issued, submits, runs, meterVars, syncVars,
                   lsThreads, lsCurrent, lsMessages>>

\* a slip: the new thread is displayed without its welcome message
NoMessages == <<>>

\* what createNewThread displays: setMessages([initialMessage])
MessagesOfNewThread == <<InitialMessage>>

\* a slip: the updater returns the list it was given
ThreadsWithoutNew(newThread) == threads

\* the thread list after createNewThread's setThreads updater
ThreadsAfterCreate(newThread) == Append(threads, newThread)

\* POST /api/assistants/threads answered; a call made by loadSavedData ends
\* the loading phase when it returns
CreateNewThreadResolve(ok) ==
    /\ creating > 0
    /\ creating' = creating - 1
    /\ issued' = IF ok THEN issued + 1 ELSE issued
    /\ isLoading' = FALSE
    /\ inputDisabled' = FALSE
    /\ IF ok
       THEN LET newThread == Thread(IdOf(issued'), <<"New Chat">>, <<InitialMessage>>)
            IN  /\ threads' = ThreadsAfterCreate(newThread)
                /\ syncs' = StartedSyncs(newThread.id, syncs)
                /\ currentThreadId' = newThread.id
                /\ messages' = MessagesOfNewThread
       ELSE UNCHANGED <<threads, syncs, currentThreadId, messages>>
    /\ last' = [op |-> "createNewThread.done", ok |-> ok, wasEmpty |-> threads = <<>>]
    /\ UNCHANGED <<userInput, tokens, submits, runs, meterVars, cache, backend,
                   failed>>
    /\ Persist

\* a click on a thread of the sidebar (or a call with an unknown id)
switchThread(threadId) ==
    /\ ~isLoading
    /\ LET i == ThreadIndex(threadId, threads)
       IN  /\ IF i # 0
              THEN /\ currentThreadId' = threadId
                   /\ messages' = threads[i].messages
              ELSE UNCHANGED <<currentThreadId, messages>>
           /\ last' = IF i # 0 /\ last.op = "switchThread" /\ last.found
                         /\ last.from # last.to
                         /\ last.to = currentThreadId /\ last.from = threadId
                      THEN [op |-> "switchThread.back", found |-> TRUE,
                            from |-> currentThreadId, to |-> threadId,
                            before |-> last.before]
                      ELSE [op |-> "switchThread", found |-> i # 0,
                            from |-> currentThreadId, to |-> threadId,
                            before |-> messages]
    /\ UNCHANGED <<threads, inputDisabled, userInput, tokens, isLoading, creating,
                   issued, submits, runs, meterVars, syncVars>>
    /\ Persist

(* --------------------------- Token Meter ------------------------------- *)
\* a handleSubmit call: the userInput and currentThreadId of the render it
\* closed over, where it waits, the quota it was answered, and the texts it
\* passed to sendMessage
Submission(text, thread) ==
    [text |-> text, thread |-> thread, pc |-> "checking", quota |-> "none",
     sends |-> <<>>]

\* a sendMessage call that posted its message.  thread and content are what
\* it posted; s1 is its stream, act its requires-action handling and the
\* stream resumed by submitActionResult.  The provider's side: open is what
\* the run created last, sent the display events it has sent, usage1 and
\* usage2 the completion tokens it reported on the two streams (0: none).
\* target is the place of the message the run created last, since the values
\* of the text-deltas it sent after its latest text-created, annotated whether
\* one of them carried a file_path annotation.  invoked lists the tool calls
\* functionCallHandler was invoked for, posts the bodies of the requests made
\* to /actions.
Run(sub, thread, content) ==
    [sub |-> sub, thread |-> thread, content |-> content, s1 |-> "posting",
     act |-> "none", open |-> "none", sent |-> 0, usage1 |-> 0,
     usage2 |-> 0, target |-> [thread |-> "", index |-> 0], pending |-> {},
     outputs |-> {}, since |-> <<>>, annotated |-> FALSE, invoked |-> <<>>,
     posts |-> <<>>]

\* the textarea's onChange
TypeInput(v) ==
    /\ ~isLoading /\ ~inputDisabled
    /\ v # userInput
    /\ userInput' = v
    /\ last' = [op |-> "setUserInput"]
    /\ UNCHANGED <<messages, threads, currentThreadId, inputDisabled, tokens,
                   isLoading, creating, issued, submits, runs, meterVars, syncVars,
                   lsThreads, lsCurrent, lsMessages>>

\* handleSubmit up to its first await: a blank input returns at once
handleSubmit ==
    /\ ~isLoading /\ ~inputDisabled
    /\ Len(submits) < MaxSubmits
    /\ submits' = IF Trim(userInput) = <<>> THEN submits
                  ELSE Append(submits, Submission(userInput, currentThreadId))
    /\ last' = [op |-> "handleSubmit", blank |-> Trim(userInput) = <<>>]
    /\ UNCHANGED <<chatVars, creating, issued, runs, meterVars, syncVars,
                   lsThreads, lsCurrent, lsMessages>>

\* sendMessage up to its await: nothing is posted without a current thread
RunsAfterSend(s, text) ==
    IF submits[s].thread = "" THEN runs
    ELSE Append(runs, Run(s, submits[s].thread, text))

\* a slip: the input as it is when the quota check returns
CurrentInput(s) == userInput

\* the text handleSubmit sends and shows: the userInput it closed over
SubmittedText(s) == submits[s].text

\* a slip: a quota of 0 still sends
QuotaAllowsZero(q) == q >= 0

\* handleSubmit's branch on the answer of /tokens
QuotaAllows(q) == q > 0

\* the message list after handleSubmit's setMessages
MessagesAfterSubmit(s, q) ==
    IF QuotaAllows(q) THEN Append(messages, Msg("user", SubmittedText(s)))
    ELSE Append(messages, UpsellMessage)

\* the quota check of the submission s answered with q tokens
HandleSubmitQuota(s, q) ==
    /\ submits[s].pc = "checking"
    /\ tokens' = q
    /\ messages' = MessagesAfterSubmit(s, q)
    /\ IF QuotaAllows(q)
       THEN /\ runs' = RunsAfterSend(s, SubmittedText(s))
            /\ submits' = [submits EXCEPT ![s].pc = "done", ![s].quota = q,
                                          ![s].sends = Append(@, SubmittedText(s))]
            /\ userInput' = <<>>
       ELSE /\ submits' = [submits EXCEPT ![s].pc = "done", ![s].quota = q]
            /\ UNCHANGED <<runs, userInput>>
    /\ inputDisabled' = FALSE
    /\ last' = [op |-> "handleSubmit.quota", sub |-> s, quota |-> q]
    /\ UNCHANGED <<threads, currentThreadId, isLoading, creating, issued,
                   meterVars, syncVars>>
    /\ Persist

\* a slip: the user's message is shown before the quota check returns
MessagesWithUserText(s) == Append(messages, Msg("user", submits[s].text))

\* the message list when handleSubmit's try block threw before its branch
MessagesAfterError(s) == messages

\* the quota check of the submission s failed (fingerprint, network, body
\* that is not JSON): the catch block shows the alert
HandleSubmitError(s) ==
    /\ submits[s].pc = "checking"
    /\ submits' = [submits EXCEPT ![s].pc = "failed"]
    /\ messages' = MessagesAfterError(s)
    /\ inputDisabled' = FALSE
    /\ last' = [op |-> "handleSubmit.alert", sub |-> s]
    /\ UNCHANGED <<threads, currentThreadId, userInput, tokens, isLoading,
                   creating, issued, runs, meterVars, syncVars>>
    /\ Persist

\* POST /api/assistants/threads/<id>/messages answered for the run r; either
\* way sendMessage's finally enables the input
SendMessageResolve(r, ok) ==
    /\ runs[r].s1 = "posting"
    /\ runs' = [runs EXCEPT ![r].s1 = IF ok THEN "open" ELSE "failed"]
    /\ inputDisabled' = FALSE
    /\ last' = [op |-> "sendMessage.response", run |-> r, ok |-> ok]
    /\ UNCHANGED <<messages, threads, currentThreadId, userInput, tokens, isLoading,
                   creating, issued, submits, meterVars, syncVars,
                   lsThreads, lsCurrent, lsMessages>>

(* -------------------------- Stream Reconciler -------------------------- *)
\* the handlers of a run are registered on its first stream and on the
\* stream resumed after requires-action
Streaming(r) == runs[r].s1 = "open" \/ runs[r].act = "open"

RECURSIVE EventsSent(_)
EventsSent(rs) == IF rs = <<>> THEN 0 ELSE Head(rs).sent + EventsSent(Tail(rs))

\* the provider may send a display event to the handlers of r
Delivering(r) == Streaming(r) /\ EventsSent(runs) < MaxEvents

\* appendMessage's updater
AppendedMessage(msgs, role, text) == Append(msgs, Msg(role, text))

\* a slip: the text goes in front
PrependedToLast(msgs, text) == [msgs EXCEPT ![Len(msgs)].text = text \o @]

\* appendToLastMessage's updater
AppendedToLast(msgs, text) == [msgs EXCEPT ![Len(msgs)].text = @ \o text]

\* annotateLastMessage's updater
RECURSIVE AnnotatedText(_, _)
AnnotatedText(text, annotations) ==
    IF annotations = <<>> THEN text
    ELSE AnnotatedText(
             IF Head(annotations).type = "file_path"
             THEN ReplaceAll(text, Head(annotations).text, FileUrl(Head(annotations).file_id))
             ELSE text,
             Tail(annotations))

\* a slip: String.prototype.replace with a string pattern, which replaces
\* the first occurrence only
AnnotatedOnce(msgs, annotations) ==
    LET RECURSIVE ReplaceFirst(_, _, _)
        ReplaceFirst(s, pat, rep) ==
            IF pat = <<>> \/ s = <<>> THEN s
            ELSE IF StartsWith(s, pat)
                 THEN rep \o SubSeq(s, Len(pat) + 1, Len(s))
                 ELSE <<Head(s)>> \o ReplaceFirst(Tail(s), pat, rep)
        RECURSIVE FirstOnly(_, _)
        FirstOnly(text, as) ==
            IF as = <<>> THEN text
            ELSE FirstOnly(IF Head(as).type = "file_path"
                           THEN ReplaceFirst(text, Head(as).text, FileUrl(Head(as).file_id))
                           ELSE text,
                           Tail(as))
    IN  [msgs EXCEPT ![Len(msgs)].text = FirstOnly(@, annotations)]

Annotated(msgs, annotations) ==
    [msgs EXCEPT ![Len(msgs)].text = AnnotatedText(@, annotations)]

\* what a text-delta event carries
TextDeltas == [value : Deltas, annotations : AnnotationLists]

\* handleTextDelta: the list appendToLastMessage hands to updateThread, and
\* the list displayed after annotateLastMessage
DeltaAppended(msgs, delta) == AppendedToLast(msgs, delta.value)

DeltaDisplayed(msgs, delta) == Annotated(DeltaAppended(msgs, delta), delta.annotations)

\* a slip: the kind is not looked at
ToolDeltaAnyKind(kind, input) == input # <<>>

\* toolCallDelta's two early returns
ToolDeltaApplies(kind, input) == kind = "code_interpreter" /\ input # <<>>

\* a slip: the kind is not looked at
ToolCreatedAnyKind(kind) == TRUE

\* toolCallCreated's early return
ToolCreatedApplies(kind) == kind = "code_interpreter"

\* the thread the handlers of the run r hand to updateThread: the
\* currentThreadId of the render that sendMessage closed over
RunThread(r) == runs[r].thread

\* appendMessage and appendToLastMessage: the displayed list becomes shown,
\* updateThread gets stored and its last text, and starts a sync
Mutate(r, stored, shown) ==
    /\ messages' = shown
    /\ threads' = UpdatedThreads(RunThread(r), stored, stored[Len(stored)].text, threads)
    /\ syncs' = SyncsAfterUpdate(RunThread(r), threads)

\* an updater that reads the last message of an empty list throws
Crash(r, op) ==
    /\ last' = [op |-> "crash", run |-> r, handler |-> op]
    /\ UNCHANGED <<chatVars, creating, issued, submits, runs, meterVars, syncVars,
                   lsThreads, lsCurrent, lsMessages>>

streamFrame == <<currentThreadId, inputDisabled, userInput, tokens, isLoading,
                 creating, issued, submits, meterVars, cache, backend, failed>>

\* text-created
handleTextCreated(r) ==
    /\ Delivering(r)
    /\ Mutate(r, AppendedMessage(messages, "assistant", <<>>),
                 AppendedMessage(messages, "assistant", <<>>))
    /\ runs' = [runs EXCEPT ![r].sent = @ + 1, ![r].open = "text",
                            ![r].target = [thread |-> currentThreadId,
                                           index |-> Len(messages) + 1],
                            ![r].since = <<>>, ![r].annotated = FALSE]
    /\ last' = [op |-> "textCreated", run |-> r]
    /\ UNCHANGED streamFrame
    /\ Persist

\* text-delta
handleTextDelta(r, delta) ==
    /\ Delivering(r) /\ runs[r].open = "text"
    /\ IF messages = <<>> THEN Crash(r, "textDelta")
       ELSE /\ Mutate(r, DeltaAppended(messages, delta), DeltaDisplayed(messages, delta))
            /\ runs' = [runs EXCEPT
                           ![r].sent = @ + 1,
                           ![r].since = Append(@, delta.value),
                           ![r].annotated =
                               @ \/ \E i \in 1..Len(delta.annotations) :
                                        delta.annotations[i].type = "file_path"]
            /\ last' = [op |-> "textDelta", run |-> r, delta |-> delta]
            /\ UNCHANGED streamFrame
            /\ Persist

\* image-file-done
handleImageFileDone(r, f) ==
    /\ Delivering(r)
    /\ IF messages = <<>> THEN Crash(r, "imageFileDone")
       ELSE /\ Mutate(r, AppendedToLast(messages, ImageMarkdown(f)),
                         AppendedToLast(messages, ImageMarkdown(f)))
            /\ runs' = [runs EXCEPT ![r].sent = @ + 1]
            /\ last' = [op |-> "imageFileDone", run |-> r, file_id |-> f]
            /\ UNCHANGED streamFrame
            /\ Persist

\* tool-call-created
toolCallCreated(r, kind) ==
    /\ Delivering(r)
    /\ IF ToolCreatedApplies(kind)
       THEN /\ Mutate(r, AppendedMessage(messages, "code", <<>>),
                         AppendedMessage(messages, "code", <<>>))
            /\ runs' = [runs EXCEPT ![r].sent = @ + 1, ![r].open = kind,
                                    ![r].target = [thread |-> currentThreadId,
                                                   index |-> Len(messages) + 1]]
       ELSE /\ runs' = [runs EXCEPT ![r].sent = @ + 1, ![r].open = kind]
            /\ UNCHANGED <<messages, threads, syncs>>
    /\ last' = [op |-> "toolCallCreated", run |-> r, kind |-> kind]
    /\ UNCHANGED streamFrame
    /\ Persist

\* tool-call-delta; input <<>> stands for a delta without input
toolCallDelta(r, kind, input) ==
    /\ Delivering(r) /\ runs[r].open = kind
    /\ IF ToolDeltaApplies(kind, input) /\ messages = <<>> THEN Crash(r, "toolCallDelta")
       ELSE /\ IF ToolDeltaApplies(kind, input)
               THEN Mutate(r, AppendedToLast(messages, input),
                              AppendedToLast(messages, input))
               ELSE UNCHANGED <<messages, threads, syncs>>
            /\ runs' = [runs EXCEPT ![r].sent = @ + 1]
            /\ last' = [op |-> "toolCallDelta", run |-> r, kind |-> kind,
                        input |-> input]
            /\ UNCHANGED streamFrame
            /\ Persist

(* --------------------- usage, actions and completion -------------------- *)
StepTypes == {"message_creation", "tool_calls"}

\* the transform of sendMessage: window.completionTokens after a chunk
\* thread.run.step.completed of the given step type and usage
TokensAfterChunk(stepType, n) ==
    IF stepType = "message_creation" /\ n # 0 THEN n ELSE completionTokens

\* the usage the provider reported on a stream, after such a chunk
ReportedAfter(was, stepType, n) ==
    IF stepType = "message_creation" /\ n # 0 THEN n ELSE was

\* the chunks a stream carries: one that is not JSON, the JSON of an event
\* the transform does not look at, the JSON of thread.run.step.completed
MalformedChunk == [json |-> FALSE, event |-> "", type |-> "", tokens |-> 0]

OtherChunk == [json |-> TRUE, event |-> "thread.message.delta", type |-> "", tokens |-> 0]

StepCompletedChunk(stepType, n) ==
    [json |-> TRUE, event |-> "thread.run.step.completed", type |-> stepType,
     tokens |-> n]

\* a slip: the catch block does not enqueue
ForwardedByTryOnly(chunk) == IF chunk.json THEN <<chunk>> ELSE <<>>

\* what the transform enqueues for a chunk: controller.enqueue(chunk) at the
\* end of the try block, or in the catch block when JSON.parse threw
ForwardedBy(chunk) == IF chunk.json THEN <<chunk>> ELSE <<chunk>>

\* a step-completed chunk passes the transform of the first stream of r
transformChunk(r, stepType, n) ==
    /\ runs[r].s1 = "open" /\ runs[r].usage1 = 0
    /\ completionTokens' = TokensAfterChunk(stepType, n)
    /\ runs' = [runs EXCEPT ![r].usage1 = ReportedAfter(@, stepType, n)]
    /\ last' = [op |-> "transform", run |-> r,
                chunk |-> StepCompletedChunk(stepType, n),
                forwarded |-> ForwardedBy(StepCompletedChunk(stepType, n))]
    /\ UNCHANGED <<chatVars, creating, issued, submits, decrements, syncVars,
                   lsThreads, lsCurrent, lsMessages>>

\* window.completionTokens after the transform was given a chunk:
\* JSON.parse throws on a chunk that is not JSON, before anything is stored
RecordedAfter(chunk) ==
    IF chunk.json /\ chunk.event = "thread.run.step.completed"
    THEN TokensAfterChunk(chunk.type, chunk.tokens)
    ELSE completionTokens

\* a chunk that is not JSON, or not a step-completed event, passes the
\* transform of the first stream of r
transformOtherChunk(r, chunk) ==
    /\ runs[r].s1 = "open"
    /\ completionTokens' = RecordedAfter(chunk)
    /\ last' = [op |-> "transform", run |-> r, chunk |-> chunk,
                forwarded |-> ForwardedBy(chunk)]
    /\ UNCHANGED runs
    /\ UNCHANGED <<chatVars, creating, issued, submits, decrements, syncVars,
                   lsThreads, lsCurrent, lsMessages>>

\* a step-completed event arrives on the stream resumed by
\* submitActionResult, which has no transform
resumedChunk(r, stepType, n) ==
    /\ runs[r].act = "open" /\ runs[r].usage2 = 0
    /\ runs' = [runs EXCEPT ![r].usage2 = ReportedAfter(@, stepType, n)]
    /\ last' = [op |-> "resumed.chunk", run |-> r]
    /\ UNCHANGED <<chatVars, creating, issued, submits, meterVars, syncVars,
                   lsThreads, lsCurrent, lsMessages>>

\* what functionCallHandler resolves with: the API's data, or undefined
\* (no token, another function name, a failed request)
HandlerOutputs == {"data", "undefined"}

\* a slip: the first tool call of the batch is left out
InvokedButFirst(n) == [i \in 1..(n - 1) |-> i + 1]

\* toolCalls.map: the tool calls of a batch of n, which carry the ids 1..n
InvokedFor(n) == [i \in 1..n |-> i]

\* thread.run.requires_action with a batch of n tool calls: the handler of
\* every call is invoked, and the stream has nothing more to deliver
handleRequiresAction(r, n) ==
    /\ runs[r].s1 = "open"
    /\ runs' = [runs EXCEPT ![r].s1 = "closing", ![r].act = "tools",
                            ![r].pending = 1..n,
                            ![r].invoked = @ \o InvokedFor(n)]
    /\ last' = [op |-> "requiresAction", run |-> r]
    /\ UNCHANGED <<chatVars, creating, issued, submits, meterVars, syncVars,
                   lsThreads, lsCurrent, lsMessages>>

\* inputDisabled after the batch's Promise.all resolved
DisabledAfterBatch(pendingLeft) == IF pendingLeft = {} THEN TRUE ELSE inputDisabled

\* functionCallHandler resolved with out for the tool call c of r; with the
\* last one of the batch Promise.all resolves and submitActionResult posts
\* the outputs
ToolCallResolve(r, c, out) ==
    /\ runs[r].act = "tools" /\ c \in runs[r].pending
    /\ LET left == runs[r].pending \ {c}
           collected == runs[r].outputs \cup {[output |-> out, tool_call_id |-> c]}
       IN  /\ runs' = [runs EXCEPT ![r].pending = left,
                          ![r].outputs = collected,
                          ![r].act = IF left = {} THEN "submitting" ELSE "tools",
                          ![r].posts = IF left = {} THEN Append(@, collected) ELSE @]
           /\ inputDisabled' = DisabledAfterBatch(left)
    /\ last' = [op |-> "functionCallHandler", run |-> r]
    /\ UNCHANGED <<messages, threads, currentThreadId, userInput, tokens, isLoading,
                   creating, issued, submits, meterVars, syncVars,
                   lsThreads, lsCurrent, lsMessages>>

\* a slip: the catch block leaves the input as it is
DisabledAfterActionKept(ok) == inputDisabled

\* inputDisabled after submitActionResult: its catch block enables the input
DisabledAfterAction(ok) == IF ok THEN inputDisabled ELSE FALSE

\* POST /api/assistants/threads/<id>/actions answered; a failure (network,
\* answer that is not ok) is caught and logged with console.error
submitActionResult(r, ok) ==
    /\ runs[r].act = "submitting"
    /\ runs' = [runs EXCEPT ![r].act = IF ok THEN "open" ELSE "failed"]
    /\ inputDisabled' = DisabledAfterAction(ok)
    /\ last' = [op |-> "submitActionResult", run |-> r, ok |-> ok, logged |-> ~ok]
    /\ UNCHANGED <<messages, threads, currentThreadId, userInput, tokens, isLoading,
                   creating, issued, submits, meterVars, syncVars,
                   lsThreads, lsCurrent, lsMessages>>

\* thread.run.completed, on either stream
handleRunCompleted(r) ==
    /\ Streaming(r)
    /\ runs' = IF runs[r].s1 = "open" THEN [runs EXCEPT ![r].s1 = "closing"]
               ELSE [runs EXCEPT ![r].act = "completed"]
    /\ inputDisabled' = FALSE
    /\ last' = [op |-> "runCompleted", run |-> r]
    /\ UNCHANGED <<messages, threads, currentThreadId, userInput, tokens, isLoading,
                   creating, issued, submits, meterVars, syncVars,
                   lsThreads, lsCurrent, lsMessages>>

\* a terminal event other than thread.run.completed (thread.run.failed,
\* cancelled, expired, incomplete) on either stream: the 'event' listener
\* has no branch for it
otherTerminalEvent(r) ==
    /\ Streaming(r)
    /\ runs' = IF runs[r].s1 = "open" THEN [runs EXCEPT ![r].s1 = "closing"]
               ELSE [runs EXCEPT ![r].act = "aborted"]
    /\ last' = [op |-> "runEnded", run |-> r]
    /\ UNCHANGED <<chatVars, creating, issued, submits, meterVars, syncVars,
                   lsThreads, lsCurrent, lsMessages>>

\* the requests posted to /tokens/decrease after the 'end' handler of the
\* first stream of r read window.completionTokens
DecrementsAfterEnd(r) ==
    IF completionTokens > 0
    THEN Append(decrements, [run |-> r, by |-> completionTokens, pc |-> "pending"])
    ELSE decrements

\* 'end' of the first stream of r
streamEnd(r) ==
    /\ runs[r].s1 = "closing"
    /\ runs' = [runs EXCEPT ![r].s1 = "ended"]
    /\ decrements' = DecrementsAfterEnd(r)
    /\ last' = [op |-> "stream.end", run |-> r]
    /\ UNCHANGED <<chatVars, creating, issued, submits, completionTokens, syncVars,
                   lsThreads, lsCurrent, lsMessages>>

\* /tokens/decrease answered: window.completionTokens is deleted on success
decrementResolve(d, ok) ==
    /\ decrements[d].pc = "pending"
    /\ decrements' = [decrements EXCEPT ![d].pc = IF ok THEN "ok" ELSE "failed"]
    /\ completionTokens' = IF ok THEN 0 ELSE completionTokens
    /\ last' = [op |-> "decrease.response", ok |-> ok]
    /\ UNCHANGED <<chatVars, creating, issued, submits, runs, syncVars,
                   lsThreads, lsCurrent, lsMessages>>

(* --------------------------- specification ----------------------------- *)
\* The state after construction with a user token resolved: loadSavedData
\* is about to run.  The registry is empty or holds the old thread.
Init ==
    /\ messages = <<>>
    /\ threads = <<>>
    /\ currentThreadId = ""
    /\ inputDisabled = FALSE
    /\ userInput = <<>>
    /\ tokens = 0
    /\ isLoading = TRUE
    /\ creating = 0
    /\ issued = 0
    /\ submits = <<>>
    /\ runs = <<>>
    /\ completionTokens = 0
    /\ decrements = <<>>
    /\ cache = <<>>
    /\ backend \in {<<>>, <<OldId>>}
    /\ syncs = EmptyBag
    /\ failed = {}
    /\ lsThreads = <<>>
    /\ lsCurrent = ""
    /\ lsMessages = <<>>
    /\ last = [op |-> "init"]

\* what the Backend Thread Registry may list when the component mounts:
\* nothing, one thread, two threads in either order, or one thread twice
\* (two calls of syncThreadWithBackend for one thread, none of which found
\* it cached or listed, each had their registration POST accepted)
Registries ==
    {<<>>, <<OldId>>, <<OldId, OlderId>>, <<OlderId, OldId>>, <<OldId, OldId>>}

\* the state after construction for a user with up to two registered threads
InitListed ==
    /\ messages = <<>>
    /\ threads = <<>>
    /\ currentThreadId = ""
    /\ inputDisabled = FALSE
    /\ userInput = <<>>
    /\ tokens = 0
    /\ isLoading = TRUE
    /\ creating = 0
    /\ issued = 0
    /\ submits = <<>>
    /\ runs = <<>>
    /\ completionTokens = 0
    /\ decrements = <<>>
    /\ cache = <<>>
    /\ backend \in Registries
    /\ syncs = EmptyBag
    /\ failed = {}
    /\ lsThreads = <<>>
    /\ lsCurrent = ""
    /\ lsMessages = <<>>
    /\ last = [op |-> "init"]

\* a thread id that a session with another user token left in the browser's
\* cached_thread_ids, a key that does not carry the user token
OtherId == "x0"

\* what cached_thread_ids may hold when the component mounts: nothing, the
\* list an earlier session of this user cached, or another user's id
StoredCaches == {<<>>, backend, <<OtherId>>}

\* the state after construction in a browser that was used before
InitStored ==
    /\ messages = <<>>
    /\ threads = <<>>
    /\ currentThreadId = ""
    /\ inputDisabled = FALSE
    /\ userInput = <<>>
    /\ tokens = 0
    /\ isLoading = TRUE
    /\ creating = 0
    /\ issued = 0
    /\ submits = <<>>
    /\ runs = <<>>
    /\ completionTokens = 0
    /\ decrements = <<>>
    /\ backend \in {<<>>, <<OldId>>}
    /\ cache \in StoredCaches
    /\ syncs = EmptyBag
    /\ failed = {}
    /\ lsThreads = <<>>
    /\ lsCurrent = ""
    /\ lsMessages = <<>>
    /\ last = [op |-> "init"]

Load ==
    \E getOk \in BOOLEAN, histOk \in BOOLEAN :
        LoadSavedData(getOk, IF histOk THEN ListedIds ELSE {})

\* a load in which each listed thread's history is fetched or not on its own
LoadEach == \E getOk \in BOOLEAN, loadable \in SUBSET ListedIds : LoadSavedData(getOk, loadable)

Created == \E ok \in BOOLEAN : CreateNewThreadResolve(ok)

Switch == \E id \in AllIds : switchThread(id)

\* a click on one of the threads the sidebar shows
SwitchShown == \E i \in 1..Len(threads) : switchThread(threads[i].id)

SwitchListed == \E id \in AllIds \cup ListedIds : switchThread(id)

Type == \E v \in Inputs : TypeInput(v)

Submit ==
    \/ handleSubmit
    \/ \E s \in 1..Len(submits) : \E q \in (-1)..MaxQuota : HandleSubmitQuota(s, q)
    \/ \E s \in 1..Len(submits) : HandleSubmitError(s)

\* handleSubmit called up to MaxAppendSubmits times, and its continuations
SubmitFew ==
    \/ Len(submits) < MaxAppendSubmits /\ handleSubmit
    \/ \E s \in 1..Len(submits) : \E q \in (-1)..MaxQuota : HandleSubmitQuota(s, q)
    \/ \E s \in 1..Len(submits) : HandleSubmitError(s)

Sent == \E r \in 1..Len(runs) : \E ok \in BOOLEAN : SendMessageResolve(r, ok)

TextCreated == \E r \in 1..Len(runs) : handleTextCreated(r)

TextDelta == \E r \in 1..Len(runs) : \E delta \in TextDeltas : handleTextDelta(r, delta)

Media ==
    \E r \in 1..Len(runs) :
        \/ \E f \in FileIds : handleImageFileDone(r, f)
        \/ \E kind \in ToolKinds : toolCallCreated(r, kind)
        \/ \E kind \in ToolKinds : \E input \in {<<>>, <<"a">>} :
               toolCallDelta(r, kind, input)

\* the events that rewrite the last message: a text-delta with and without
\* a file_path annotation, an image-file-done, and a code_interpreter tool
\* call with an input
Appends ==
    \E r \in 1..Len(runs) :
        \/ \E as \in {<<>>, <<Annotation("file_path", <<"a">>, "F")>>} :
               handleTextDelta(r, [value |-> <<"a">>, annotations |-> as])
        \/ handleImageFileDone(r, "F")
        \/ toolCallCreated(r, "code_interpreter")
        \/ toolCallDelta(r, "code_interpreter", <<"a">>)

Completed == \E r \in 1..Len(runs) : handleRunCompleted(r)

Failed == \E r \in 1..Len(runs) : otherTerminalEvent(r)

\* requires-action with batches of up to maxCalls tool calls whose handlers
\* resolve with one of outs
ToolsOf(maxCalls, outs) ==
    \E r \in 1..Len(runs) :
        \/ \E n \in 1..maxCalls : handleRequiresAction(r, n)
        \/ \E c \in 1..maxCalls : \E out \in outs : ToolCallResolve(r, c, out)
        \/ \E ok \in BOOLEAN : submitActionResult(r, ok)

Tools == ToolsOf(MaxToolCalls, HandlerOutputs)

\* batches of a single tool call whose handler returns data
OneTool == ToolsOf(1, {"data"})

StepChunk ==
    \E r \in 1..Len(runs) : \E t \in StepTypes : \E n \in 0..MaxUsage :
        transformChunk(r, t, n)

ResumedChunk ==
    \E r \in 1..Len(runs) : \E t \in StepTypes : \E n \in 0..MaxUsage :
        resumedChunk(r, t, n)

Usage == StepChunk \/ ResumedChunk

Chunk ==
    \E r \in 1..Len(runs) : \E chunk \in {MalformedChunk, OtherChunk} :
        transformOtherChunk(r, chunk)

Ended ==
    \/ \E r \in 1..Len(runs) : streamEnd(r)
    \/ \E d \in 1..Len(decrements) : \E ok \in BOOLEAN : decrementResolve(d, ok)

Sync ==
    \E p \in BagToSet(syncs) : \E ok \in BOOLEAN :
        \/ SyncGetResolve(p, ok)
        \/ SyncFingerprintResolve(p, ok)
        \/ SyncPostResolve(p, ok)

\* the component with everything its world can do
Next ==
    \/ Load \/ Created \/ CreateNewThread \/ Switch \/ Type \/ Submit \/ Sent
    \/ TextCreated \/ TextDelta \/ Media \/ Completed \/ Failed \/ Tools \/ Usage
    \/ Chunk \/ Ended \/ Sync

Spec == Init /\ [][Next]_vars

(***************************************************************************)
(* The claims are checked on the component in four worlds, each leaving    *)
(* out what the others look at; a request a world never answers stays in   *)
(* flight.                                                                 *)
(***************************************************************************)
\* Chat View: the user creates threads, switches, types and submits; runs
\* are started and send nothing
NextView ==
    \/ Load \/ Created \/ CreateNewThread \/ Switch \/ Type \/ Submit \/ Sent

SpecView == Init /\ [][NextView]_vars

\* First load: the registry lists up to two threads, each with a history
\* that can or cannot be fetched; afterwards the user creates threads,
\* switches between them, types and submits, and the quota answers
NextLoad ==
    \/ LoadEach \/ Created \/ CreateNewThread \/ SwitchListed \/ Type \/ Submit

SpecLoad == InitListed /\ [][NextLoad]_vars

\* Switching while streaming: the user creates threads and switches between
\* them while runs stream text-created events
NextSwitching ==
    \/ Load \/ Created \/ CreateNewThread \/ SwitchShown \/ Type \/ Submit \/ Sent
    \/ TextCreated

SpecSwitching == Init /\ [][NextSwitching]_vars

\* Appending while switching: the user creates threads and switches between
\* them while the run of a submission streams events that rewrite the last
\* message
NextAppend ==
    \/ Load \/ Created \/ CreateNewThread \/ SwitchShown \/ Type \/ SubmitFew \/ Sent
    \/ TextCreated \/ Appends

SpecAppend == Init /\ [][NextAppend]_vars

\* Stream Reconciler: one thread list as loaded, runs that stream text
NextRun ==
    \/ Load \/ Created \/ Type \/ Submit \/ Sent
    \/ TextCreated \/ TextDelta \/ Completed

SpecRun == Init /\ [][NextRun]_vars

\* Thread Synchronizer: the syncs started by createNewThread and by the
\* updateThread of a run's text-created events, and their requests, in a
\* browser whose cached_thread_ids may have been written before
NextSync ==
    \/ Load \/ Created \/ Type \/ Submit \/ Sent
    \/ TextCreated \/ Sync

SpecSync == InitStored /\ [][NextSync]_vars

\* Token Meter: runs that report usage, pause for a tool call, complete and
\* end, and the decrement requests
NextMeter ==
    \/ Load \/ Created \/ Type \/ Submit \/ Sent
    \/ Completed \/ OneTool \/ Usage \/ Ended

SpecMeter == Init /\ [][NextMeter]_vars

\* Media and tool calls on display: runs that stream text-created,
\* image-file-done, tool-call-created and tool-call-delta
NextMedia ==
    \/ Load \/ Created \/ Type \/ Submit \/ Sent
    \/ TextCreated \/ Media

SpecMedia == Init /\ [][NextMedia]_vars

\* The transform of sendMessage: streams that carry chunks of every kind,
\* complete and end
NextTransform ==
    \/ Load \/ Created \/ Type \/ Submit \/ Sent
    \/ StepChunk \/ Chunk \/ Completed \/ Ended

SpecTransform == Init /\ [][NextTransform]_vars

\* Tool calls: runs that pause on requires-action with a batch of tool
\* calls, submit the outputs and complete on the resumed stream
NextTools ==
    \/ Load \/ Created \/ Type \/ Submit \/ Sent
    \/ Completed \/ Failed \/ Tools

SpecTools == Init /\ [][NextTools]_vars

\* every request is answered, every pending handler resolves
Answered ==
    \/ Load \/ Created \/ Sent
    \/ \E s \in 1..Len(submits) : \E q \in (-1)..MaxQuota : HandleSubmitQuota(s, q)
    \/ \E s \in 1..Len(submits) : HandleSubmitError(s)
    \/ \E r \in 1..Len(runs) : \E c \in 1..MaxToolCalls : \E out \in HandlerOutputs :
           ToolCallResolve(r, c, out)
    \/ \E r \in 1..Len(runs) : \E ok \in BOOLEAN : submitActionResult(r, ok)

\* every open stream delivers the event that ends it
Terminated ==
    \/ Completed \/ Failed
    \/ \E r \in 1..Len(runs) : \E n \in 1..MaxToolCalls : handleRequiresAction(r, n)

\* the same world with requests that get their answer and streams that end
SpecToolsFair == SpecTools /\ WF_vars(Answered) /\ WF_vars(Terminated)

(* ------------------------------ claims --------------------------------- *)
\* the calls for the thread id that wait at one of the places pcs
SyncsAt(id, pcs, bag) ==
    LET ps == {p \in BagToSet(bag) : p.id = id /\ p.pc \in pcs}
        RECURSIVE Sum(_)
        Sum(S) == IF S = {} THEN 0
                  ELSE LET p == CHOOSE q \in S : TRUE
                       IN  CopiesIn(p, bag) + Sum(S \ {p})
    IN  Sum(ps)

\* C1: whatever the interleaving of the syncThreadWithBackend calls started
\* by createNewThread and by updateThread, the registry stores at most one
\* row for a thread id: it answers at most one registration POST with ok.
C1_AtMostOneRegistration == \A id \in AllIds : Count(id, backend) <= 1

\* C2: when the registry's answer to the GET of a call lists the thread the
\* call is for (a thread that was not cached when the call started), the call
\* ends without a registration POST (it moves on neither to the fingerprint
\* nor to the POST, and the registry is left as it was), and the cached id list
\* holds the id afterwards.
C2_ListedThreadIsCachedNotPosted ==
    [][ (last'.op = "sync.get" /\ last'.listed)
        => /\ InSeq(last'.id, cache')
           /\ backend' = backend
           /\ SyncsAt(last'.id, {"fingerprint", "post"}, syncs')
                = SyncsAt(last'.id, {"fingerprint", "post"}, syncs)
           /\ SyncsAt(last'.id, {"get"}, syncs')
                = SyncsAt(last'.id, {"get"}, syncs) - 1 ]_vars

\* the registry held the old thread and a new one, and a call for the new
\* one found it in the registry's answer: the cache holds both
C2_Witness ==
    /\ last.op = "sync.get" /\ last.listed
    /\ last.id # OldId /\ InSeq(OldId, backend)
    /\ InSeq(last.id, cache) /\ InSeq(OldId, cache)

\* C3: every text append of a run goes to the message the run created last:
\* when a text-delta is handled, the last message of the displayed list is
\* the one the run's latest text-created put there, in the thread displayed
\* then, also when handleSubmit appended a message in between.
C3_AppendsTargetOwnMessage ==
    [][ last'.op = "textDelta"
        => /\ runs[last'.run].target.index = Len(messages)
           /\ runs[last'.run].target.thread = currentThreadId ]_vars

\* C4: after a text-delta of a run, the last message's text is the values
\* of the text-deltas the run has sent since its latest text-created,
\* concatenated in arrival order.  Stated for the sequences in which no delta
\* carried a file_path annotation, whose text handleTextDelta rewrites.
C4_DeltasConcatenate ==
    (last.op = "textDelta" /\ ~runs[last.run].annotated)
        => messages[Len(messages)].text = Concat(runs[last.run].since)

\* C5: switchThread to another thread and straight back displays the list
\* that was displayed before switching away.
C5_SwitchBackRestores ==
    last.op = "switchThread.back" => messages = last.before

\* C6: the input is disabled for as long as a run is under way, that is from
\* the sending of its message until its stream, and the stream resumed after
\* requires-action, has completed or failed.
C6_InputDisabledDuringRun ==
    \A r \in 1..Len(runs) :
        (runs[r].s1 \in {"posting", "open"} \/ runs[r].act \in {"tools", "submitting", "open"})
            => inputDisabled

\* C7: a quota answer that is not greater than 0 appends exactly one
\* message, an assistant message with the upsell text, and sends nothing: no
\* run starts and the submission made no sendMessage call.
C7_NoQuotaUpsells ==
    [][ (last'.op = "handleSubmit.quota" /\ last'.quota <= 0)
        => /\ Len(messages') = Len(messages) + 1
           /\ SubSeq(messages', 1, Len(messages)) = messages
           /\ messages'[Len(messages')].role = "assistant"
           /\ messages'[Len(messages')].text = <<"upsell">>
           /\ runs' = runs
           /\ submits'[last'.sub].sends = <<>> ]_vars

\* a quota of 0 was answered to a submission made on a thread
C7_Witness ==
    /\ last.op = "handleSubmit.quota" /\ last.quota = 0
    /\ submits[last.sub].thread # ""
    /\ messages[Len(messages)].isHTML

\* C8: every message posted to the provider belongs to a submission whose
\* quota check returned more than 0 and carries that submission's text; and a
\* quota answer greater than 0 makes exactly one sendMessage call with the
\* submitted text and appends exactly one user message with that text.
C8_SendOnlyOnQuota ==
    [][ /\ \A r \in 1..Len(runs') :
             /\ submits'[runs'[r].sub].pc = "done"
             /\ submits'[runs'[r].sub].quota > 0
             /\ runs'[r].content = submits'[runs'[r].sub].text
             /\ \A r2 \in 1..Len(runs') : runs'[r2].sub = runs'[r].sub => r2 = r
        /\ \A s \in 1..Len(submits') :
             /\ Len(submits'[s].sends) <= 1
             /\ submits'[s].sends # <<>> => submits'[s].quota > 0
        /\ (last'.op = "handleSubmit.quota" /\ last'.quota > 0)
             => /\ submits'[last'.sub].sends = <<submits[last'.sub].text>>
                /\ messages' = Append(messages,
                                      [role |-> "user", text |-> submits[last'.sub].text,
                                       isHTML |-> FALSE]) ]_vars

\* a submission was allowed and its message posted, after the user had
\* typed something else into the input
C8_Witness ==
    /\ last.op = "handleSubmit.quota" /\ last.quota > 0
    /\ runs # <<>> /\ runs[Len(runs)].sub = last.sub
    /\ runs[Len(runs)].content = <<"u">>

\* C9: every request to /tokens/decrease carries the usage the provider
\* reported on the stream whose end posted it; a stream with no usage
\* reported posts none.
C9_DecrementMatchesUsage ==
    \A d \in 1..Len(decrements) : decrements[d].by = runs[decrements[d].run].usage1

\* C10: once a run is over, each usage the provider reported for it, on its
\* first stream or on the stream resumed after requires-action, has been
\* posted to /tokens/decrease.
C10_ReportedUsageIsPosted ==
    \A r \in 1..Len(runs) :
        (runs[r].s1 = "ended" /\ runs[r].act \in {"none", "completed"}) =>
            \A u \in {runs[r].usage1, runs[r].usage2} \ {0} :
                \E d \in 1..Len(decrements) :
                    decrements[d].run = r /\ decrements[d].by = u

\* C11: a createNewThread that succeeds on an empty thread list leaves
\* exactly one thread, holding the welcome message alone; it is the current
\* thread, the displayed list is that welcome message, and a
\* syncThreadWithBackend call for the new thread has been made: it waits for
\* its GET, or has returned at once because the cache holds the id.
C11_FirstThreadIsSeeded ==
    [][ (last'.op = "createNewThread.done" /\ last'.ok /\ last'.wasEmpty)
        => /\ Len(threads') = 1
           /\ threads'[1].messages = <<[role |-> "assistant", text |-> <<"welcome">>,
                                        isHTML |-> FALSE]>>
           /\ threads'[1].id = IdOf(issued')
           /\ currentThreadId' = threads'[1].id
           /\ messages' = threads'[1].messages
           /\ \/ InSeq(threads'[1].id, cache)
              \/ SyncsAt(threads'[1].id, {"get"}, syncs')
                     = SyncsAt(threads'[1].id, {"get"}, syncs) + 1 ]_vars

\* the first thread of the session was created on an empty list and its
\* synchronization waits for the registry's list
C11_Witness ==
    /\ last.op = "createNewThread.done" /\ last.ok /\ last.wasEmpty
    /\ Len(threads) = 1 /\ threads[1].id = "t1"
    /\ SyncsAt("t1", {"get"}, syncs) = 1

\* C12: after a handler of the Stream Reconciler has changed the displayed
\* list (text-created, text-delta with its annotations), the current thread's
\* entry of the thread list holds the displayed list as its messages and the
\* text of its last message as lastMessage, and the persisted thread list is
\* the thread list.
C12_MutationsReachThread ==
    last.op \in {"textCreated", "textDelta"}
        => LET i == ThreadIndex(currentThreadId, threads)
           IN  /\ i # 0
               /\ threads[i].messages = messages
               /\ threads[i].lastMessage = messages[Len(messages)].text
               /\ lsThreads = threads

\* C13: right after a synchronization has succeeded (the registry answered
\* the GET of a call, or accepted its registration POST), every id of the
\* local cached id list is an id the registry holds for the user.
C13_CacheWithinRegistry ==
    (last.op \in {"sync.get", "sync.post"} /\ last.ok)
        => \A i \in 1..Len(cache) : InSeq(cache[i], backend)

\* C14: for the requires-action event of a run, functionCallHandler is
\* invoked exactly once per tool call of the batch; no request is posted to
\* /actions while a handler of the batch is unresolved; once all have
\* resolved exactly one request has been posted, and its body holds exactly
\* one {output, tool_call_id} pair per tool call, with that call's id.
C14_BatchSubmittedOnce ==
    \A r \in 1..Len(runs) :
        LET batch == {runs[r].invoked[i] : i \in 1..Len(runs[r].invoked)}
        IN  /\ \A c \in batch : Count(c, runs[r].invoked) = 1
            /\ runs[r].act = "none" => runs[r].invoked = <<>>
            /\ runs[r].act # "none" => batch # {}
            /\ runs[r].pending \subseteq batch
            /\ runs[r].pending # {} => runs[r].posts = <<>>
            /\ (runs[r].act # "none" /\ runs[r].pending = {})
                   => /\ Len(runs[r].posts) = 1
                      /\ Cardinality(runs[r].posts[1]) = Cardinality(batch)
                      /\ \A c \in batch :
                             Cardinality({o \in runs[r].posts[1] : o.tool_call_id = c}) = 1

\* a batch of two tool calls was resolved, one handler returning undefined
\* and the other data, and its outputs were posted
C14_Witness ==
    \E r \in 1..Len(runs) :
        /\ Len(runs[r].invoked) = 2
        /\ runs[r].act = "submitting"
        /\ Len(runs[r].posts) = 1
        /\ [output |-> "undefined", tool_call_id |-> 1] \in runs[r].posts[1]
        /\ [output |-> "data", tool_call_id |-> 2] \in runs[r].posts[1]

\* C15: with every request answered and every stream ended, an input that
\* is disabled is eventually enabled again.
C15_InputReenabled == inputDisabled ~> ~inputDisabled

\* C16 as claimed: after a failed submission of action results the input is
\* disabled.
C16_FailedActionDisables ==
    (last.op = "submitActionResult" /\ ~last.ok) => inputDisabled

\* C16 as amended: a failed submission of action results is logged, the
\* input is enabled afterwards, and no further request is posted to
\* /actions for the run, then or later.
C16_FailedActionEnables ==
    /\ (last.op = "submitActionResult" /\ ~last.ok)
           => /\ last.logged
              /\ ~inputDisabled
              /\ runs[last.run].act = "failed"
    /\ \A r \in 1..Len(runs) : runs[r].act = "failed" => Len(runs[r].posts) = 1

\* the submission of the outputs of a batch of two tool calls failed
C16_Witness ==
    /\ last.op = "submitActionResult" /\ ~last.ok
    /\ runs[last.run].act = "failed"
    /\ Len(runs[last.run].invoked) = 2
    /\ ~inputDisabled

\* C17: when the quota check of a submission fails, the alert is shown, no
\* sendMessage call is made and nothing is posted, and the message list and
\* the input text stay as they were.
C17_FailedQuotaCheckAlerts ==
    [][ \A s \in 1..Len(submits) :
            (submits[s].pc = "checking" /\ submits'[s].pc = "failed")
                => /\ last'.op = "handleSubmit.alert" /\ last'.sub = s
                   /\ submits'[s].sends = <<>>
                   /\ runs' = runs
                   /\ messages' = messages
                   /\ userInput' = userInput ]_vars

\* the quota check of a submission failed while its text was in the input
C17_Witness ==
    /\ last.op = "handleSubmit.alert"
    /\ submits[last.sub].pc = "failed"
    /\ submits[last.sub].text = <<"u">> /\ userInput = <<"u">>
    /\ Len(messages) >= 1

\* C18: a failed request of syncThreadWithBackend (the GET, the
\* fingerprint, the registration POST) does not add the thread's id to the
\* local cached id list, leaves the message list, the thread list, the
\* current thread id and inputDisabled as they were, and changes nothing a
\* later submission or stream event depends on (the submissions, the runs,
\* the input, the loading flag).
C18_SyncFailureIsSwallowed ==
    [][ (last'.op \in {"sync.get", "sync.fingerprint", "sync.post"} /\ ~last'.ok)
        => /\ InSeq(last'.id, cache') => InSeq(last'.id, cache)
           /\ backend' = backend
           /\ UNCHANGED <<messages, threads, currentThreadId, inputDisabled>>
           /\ UNCHANGED <<userInput, isLoading, submits, runs, creating>> ]_vars

\* a registration POST failed while a run was streaming, and the thread's
\* id is not in the cache
C18_Witness ==
    /\ last.op = "sync.post" /\ ~last.ok
    /\ ~InSeq(last.id, cache)
    /\ \E r \in 1..Len(runs) : runs[r].s1 = "open"

\* C19: the transform enqueues every chunk it is given exactly once and as
\* it came, whether it parses as JSON or not, and the stream stays open; a
\* chunk that is not JSON changes neither window.completionTokens nor the
\* run.
C19_TransformForwardsChunks ==
    [][ last'.op = "transform"
        => /\ last'.forwarded = <<last'.chunk>>
           /\ runs'[last'.run].s1 = "open"
           /\ ~last'.chunk.json => (completionTokens' = completionTokens /\ runs' = runs) ]_vars

\* a chunk that is not JSON passed the transform after a usage had been
\* recorded
C19_Witness ==
    /\ last.op = "transform" /\ ~last.chunk.json
    /\ last.forwarded = <<MalformedChunk>>
    /\ completionTokens = 1
    /\ runs[last.run].s1 = "open"

\* C20: when sendMessage posts a user message for a thread, the thread is
\* registered: its id is in the local cached id list or the registry holds
\* it.
C20_PostOnlyWhenRegistered ==
    [][ Len(runs') > Len(runs)
        => \/ InSeq(runs'[Len(runs')].thread, cache)
           \/ InSeq(runs'[Len(runs')].thread, backend) ]_vars

\* C21: handling image-file-done with file id F leaves a last message whose
\* text contains /api/files/F, keeps the number of messages and changes no
\* message but the last.
C21_ImageLinkInLastMessage ==
    [][ last'.op = "imageFileDone"
        => /\ Len(messages') = Len(messages)
           /\ Len(messages') >= 1
           /\ Includes(messages'[Len(messages')].text, <<"/api/files/", last'.file_id>>)
           /\ messages'[Len(messages')].role = messages[Len(messages)].role
           /\ \A i \in 1..(Len(messages) - 1) : messages'[i] = messages[i] ]_vars

\* an image-file-done was handled while the last message was the user's
C21_Witness ==
    /\ last.op = "imageFileDone" /\ last.file_id = "F"
    /\ messages[Len(messages)].role = "user"
    /\ messages[Len(messages)].text = <<"u", "\n![", "F", "](", "/api/files/", "F", ")\n">>

\* C22: a tool-call-delta changes the message list only when its kind is
\* code_interpreter and its input is non-empty, and then it appends the input
\* to the last message; a delta of any other kind, or without input, leaves
\* the messages and the thread list as they were.
C22_ToolDeltaFrame ==
    [][ last'.op = "toolCallDelta"
        => IF last'.kind = "code_interpreter" /\ last'.input # <<>>
           THEN /\ Len(messages') = Len(messages)
                /\ messages'[Len(messages')].text
                       = messages[Len(messages)].text \o last'.input
                /\ messages'[Len(messages')].role = messages[Len(messages)].role
                /\ \A i \in 1..(Len(messages) - 1) : messages'[i] = messages[i]
           ELSE messages' = messages /\ threads' = threads ]_vars

\* a code_interpreter delta with input "a" was appended to the code message
\* that its tool-call-created event opened
C22_Witness ==
    /\ last.op = "toolCallDelta" /\ last.kind = "code_interpreter"
    /\ last.input = <<"a">>
    /\ messages[Len(messages)] = Msg("code", <<"a">>)

\* the history fetchThreadMessages builds for a registered thread
LoadedHistory == << Msg("user", <<"q">>), Msg("assistant", <<"r">>) >>

\* the listed ids whose history is loadable, in the order listed
LoadedIds(listed, loadable) == SelectSeq(listed, LAMBDA id : id \in loadable)

\* a step of loadSavedData after which the thread list is exactly the
\* listed threads with a history, in the order listed, the first of them
\* current and displayed, and no thread is being created; or, when no listed
\* thread has a history, one creation request is in flight and nothing is
\* selected yet
LoadStep ==
    last'.op = "loadSavedData"
    => LET ids == LoadedIds(last'.listed, last'.loadable)
       IN  IF ids # <<>>
           THEN /\ Len(threads') = Len(ids)
                /\ \A i \in 1..Len(ids) :
                       /\ threads'[i].id = ids[i]
                       /\ threads'[i].messages = LoadedHistory
                /\ currentThreadId' = ids[1]
                /\ messages' = LoadedHistory
                /\ creating' = 0 /\ issued' = issued /\ syncs' = syncs
                /\ ~isLoading'
           ELSE /\ threads' = <<>> /\ currentThreadId' = ""
                /\ creating' = 1 /\ isLoading'

\* the creation request of loadSavedData is answered
LoadCreationAnswered == isLoading /\ last'.op = "createNewThread.done"

\* exactly one new thread exists and is selected
OneNewThreadSelected ==
    /\ Len(threads') = 1
    /\ threads'[1].id = IdOf(1) /\ ~InSeq(threads'[1].id, backend)
    /\ threads'[1].messages = <<InitialMessage>>
    /\ currentThreadId' = threads'[1].id
    /\ messages' = <<InitialMessage>>
    /\ creating' = 0 /\ ~isLoading'

\* C23 as stated: on first load the listed threads with a non-empty history
\* become the thread list in backend order with the first one current and no
\* thread created; otherwise exactly one new thread is created and selected.
C23_LoadAlwaysEndsWithThread ==
    [][ /\ LoadStep
        /\ LoadCreationAnswered => OneNewThreadSelected ]_vars

\* C23, amended: on first load the listed threads with a non-empty history
\* become the thread list in backend order with the first one current and no
\* thread created; otherwise exactly one creation request is issued, and it
\* yields exactly one new, selected thread when it succeeds and leaves the
\* chat without any thread and without a current thread when it fails.
C23_LoadSelectsOrCreates ==
    [][ /\ LoadStep
        /\ LoadCreationAnswered
           => IF last'.ok THEN OneNewThreadSelected
              ELSE /\ threads' = <<>> /\ currentThreadId' = "" /\ messages' = <<>>
                   /\ creating' = 0 /\ issued' = issued /\ ~isLoading' ]_vars

\* the registry listed t0 then t00, only t00's history could be loaded, and
\* the load made t00 the only and current thread
C23_Witness ==
    /\ last.op = "loadSavedData" /\ last.listed = <<OldId, OlderId>>
    /\ last.loadable = {OlderId}
    /\ Len(threads) = 1 /\ threads[1].id = OlderId
    /\ currentThreadId = OlderId /\ messages = LoadedHistory

\* C24: once a registration attempt for a thread id has failed, no further
\* registration POST for that id is issued because of later stream events of
\* a run: no synchronization that started after a failure for its id (only
\* updateThread, called by the stream handlers, starts one for an id that
\* already had a call) is waiting for the answer to its POST.
C24_NoRegistrationAfterFailure ==
    \A p \in BagToSet(syncs) : p.pc = "post" => ~p.retry

\* the list after is the list before with one empty message of the role
\* appended
OneEmptyAppended(role) ==
    /\ Len(messages') = Len(messages) + 1
    /\ messages'[Len(messages')].role = role
    /\ messages'[Len(messages')].text = <<>>
    /\ \A i \in 1..Len(messages) : messages'[i] = messages[i]

\* C25: text-created appends exactly one empty assistant message;
\* tool-call-created appends exactly one empty code message when its kind is
\* code_interpreter and leaves the list unchanged for any other kind; every
\* message that existed before is unchanged.
C25_CreatedAppendsOneEmpty ==
    [][ /\ last'.op = "textCreated" => OneEmptyAppended("assistant")
        /\ last'.op = "toolCallCreated"
           => IF last'.kind = "code_interpreter"
              THEN OneEmptyAppended("code")
              ELSE messages' = messages ]_vars

\* a text-created and then a code_interpreter tool-call-created were handled:
\* the list ends with an empty assistant message and an empty code message
C25_Witness ==
    /\ last.op = "toolCallCreated" /\ last.kind = "code_interpreter"
    /\ Len(messages) >= 3
    /\ messages[Len(messages)].role = "code" /\ messages[Len(messages)].text = <<>>
    /\ messages[Len(messages) - 1].role = "assistant"
    /\ messages[Len(messages) - 1].text = <<>>

\* C26: after a text-delta that carries annotations, no occurrence of the
\* text of a file_path annotation is left in the last message: each has
\* become /api/files/<file id> and the rest of the text is as it was after
\* the delta's value was appended; an annotation of another kind leaves that
\* text unchanged; no other message changes.
C26_FilePathAnnotationsReplaced ==
    [][ (last'.op = "textDelta" /\ last'.delta.annotations # <<>>)
        => LET n == Len(messages)
               appended == messages[n].text \o last'.delta.value
               shown == messages'[n].text
           IN  /\ Len(messages') = n
               /\ \A i \in 1..(n - 1) : messages'[i] = messages[i]
               /\ messages'[n].role = messages[n].role
               /\ \A k \in 1..Len(last'.delta.annotations) :
                      LET a == last'.delta.annotations[k]
                      IN  IF a.type = "file_path"
                          THEN /\ ~Includes(shown, a.text)
                               /\ shown = ReplaceAll(appended, a.text,
                                                     <<"/api/files/", a.file_id>>)
                          ELSE shown = appended ]_vars

\* the message held "a" and a delta "a" with a file_path annotation of "a"
\* for file F came: both occurrences are links now
C26_Witness ==
    /\ last.op = "textDelta"
    /\ last.delta = [value |-> <<"a">>,
                     annotations |-> <<Annotation("file_path", <<"a">>, "F")>>]
    /\ messages[Len(messages)].text = <<"/api/files/", "F", "/api/files/", "F">>

\* C27: a registration POST for a thread id is issued only if the id is
\* absent from the cached id list and absent from the registry's id list,
\* also when the GET made on the cache miss failed.
C27_PostOnlyWhenUnknown ==
    [][ (last'.op = "sync.fingerprint" /\ last'.ok)
        => /\ ~InSeq(last'.id, cache)
           /\ ~InSeq(last'.id, backend) ]_vars

\* C28: when a registration POST succeeds, the cached id list afterwards
\* holds the new id and every id it held immediately before the write,
\* whether cached by the GET of the same synchronization or by another
\* synchronization that completed in between.
C28_NoCachedIdLost ==
    [][ (last'.op = "sync.post" /\ last'.ok)
        => /\ InSeq(last'.id, cache')
           /\ \A i \in 1..Len(cache) : InSeq(cache[i], cache') ]_vars

\* C29: the stream events of a run started on thread T change only T's
\* history: when another thread is displayed while the run streams, a
\* text-created of the run leaves the displayed messages as they are, and
\* T's stored list keeps the messages it held (it is extended, never replaced
\* by another thread's messages).
C29_StreamStaysInThread ==
    [][ (last'.op = "textCreated" /\ runs[last'.run].thread # currentThreadId)
        => LET i == ThreadIndex(runs[last'.run].thread, threads)
           IN  /\ messages' = messages
               /\ i # 0 =>
                    /\ Len(threads'[i].messages) >= Len(threads[i].messages)
                    /\ SubSeq(threads'[i].messages, 1, Len(threads[i].messages))
                           = threads[i].messages ]_vars

\* C30: the current thread id is empty or the id of exactly one thread of the
\* thread list, the ids of the list are pairwise distinct, and switchThread
\* with an id that is not in the list changes neither the current thread id,
\* nor the displayed messages, nor what is persisted.
C30_CurrentThreadListedOnce ==
    [][ /\ \/ currentThreadId' = ""
           \/ Cardinality({i \in 1..Len(threads') : threads'[i].id = currentThreadId'}) = 1
        /\ \A i, j \in 1..Len(threads') : threads'[i].id = threads'[j].id => i = j
        /\ (last'.op = "switchThread" /\ ~last'.found)
           => UNCHANGED <<currentThreadId, messages, threads, lsThreads, lsCurrent,
                          lsMessages>> ]_vars

\* C31: whenever a text-delta, an image-file-done or a code_interpreter
\* tool-call-delta with an input is handled, the displayed message list is
\* not empty: the handler finds a last message and does not throw, after any
\* sequence of creations, switches, submissions and stream events.
C31_LastMessageExists ==
    [][ /\ last'.op # "crash"
        /\ (\/ last'.op \in {"textDelta", "imageFileDone"}
            \/ /\ last'.op = "toolCallDelta"
               /\ last'.kind = "code_interpreter" /\ last'.input # <<>>)
           => messages # <<>> /\ messages' # <<>> ]_vars

\* an image-file-done of a run was handled after another thread had been
\* created and displayed: the image went to that thread's welcome message,
\* the only message displayed
C31_Witness ==
    /\ last.op = "imageFileDone"
    /\ runs[last.run].thread # currentThreadId
    /\ Len(messages) = 1 /\ messages[1].role = "assistant"
    /\ StartsWith(messages[1].text, <<"welcome">>)

====
